---- MODULE Spec2Model ----
(***************************************************************************)
(* Model of the fixed-arity tree container of tasty-entree:                *)
(*   src/src/macros.rs      none_array!                                    *)
(*   src/src/ntree_node.rs  NtreeNode and the NtreeNodeInterface trait     *)
(*   src/src/ntree.rs       Ntree (root wrapper) and its tests             *)
(*                                                                         *)
(* A node is a record [data, children]; children is a function on 0..N-1   *)
(* whose values are Option<Box<NtreeNode>>: [tag |-> "None"] or            *)
(* [tag |-> "Some", node |-> n].  A reference to a node (the &dyn          *)
(* NtreeNodeInterface handles the methods return) is the path of child     *)
(* indices leading to that node from the root.                             *)
(***************************************************************************)
EXTENDS Integers, Sequences, FiniteSets

\* ---------------------------------------------------------------- bounds
\* Largest arity N explored (the const generic of NtreeNode<N, T>).
MaxArity == 2
\* Largest number of nodes a tree may hold (push is not taken beyond it).
MaxNodes == 3
\* Indices passed to the child operations range over 0..N+MaxOver.
MaxOver == 1
\* Number of pushes of the depth-chain scenario.
ChainLen == 3

Arities == 0 .. MaxArity
\* The payload type T.  The code never inspects a payload (T: Sized is the
\* only bound; equality of payloads is used by the derived PartialEq alone),
\* so T is instantiated with a type of two distinguishable values.
Data == {1, 2}

VARIABLES
    N,        \* arity of the tree type, fixed at construction
    tree,     \* the Ntree: [root |-> node]
    cur,      \* path of the node the current interface handle refers to
    cur_mut,  \* TRUE iff the current handle is a &mut handle
    pc,       \* "idle": no call result pending; "done": a call has returned
    call,     \* the last call: [op, i, d]
    pre,      \* the tree as it was when the last call was made
    ret,      \* what the last call returned (or Panic)
    hist      \* pushes made so far by the depth-chain scenario

vars == <<N, tree, cur, cur_mut, pc, call, pre, ret, hist>>

\* ------------------------------------------------- Option<Box<NtreeNode>>
None == [tag |-> "None"]
Some(n) == [tag |-> "Some", node |-> n]
\* A slot of a MaybeUninit array that has not been written yet.
Uninit == [tag |-> "Uninit"]

\* ------------------------------------------------------------ results
\* The call unwound with a panic (index out of bounds, unwrap on None).
Panic == [kind |-> "Panic"]
\* Option::None returned by a method.
RNone == [kind |-> "None"]
\* Option::Some(r) returned by a method.
RSome(r) == [kind |-> "Some", val |-> r]
\* &dyn / &mut dyn NtreeNodeInterface to the child in slot i of self.
Ref(i, m) == [kind |-> "Ref", child |-> i, mut |-> m]
\* A payload (T by value, or the payload a &T / &mut T refers to).
Val(d) == [kind |-> "Val", data |-> d]
\* A slot that was never initialised was read.
UB == [kind |-> "UB"]

\* What a method does: the node afterwards and the value it returns.
Res(s, r) == [self |-> s, ret |-> r]

\* ------------------------------------------------------------ none_array!
\* none_array! with the write loop stopping one slot early.
RECURSIVE none_array_loop_short(_, _, _)
none_array_loop_short(arr, i, size) ==
    IF i >= size - 1 THEN arr
    ELSE none_array_loop_short([arr EXCEPT ![i] = None], i + 1, size)

RECURSIVE none_array_loop(_, _, _)
none_array_loop(arr, i, size) ==
    IF i >= size THEN arr
    ELSE none_array_loop([arr EXCEPT ![i] = None], i + 1, size)

none_array(size) ==
    LET ret_maybe == [k \in 0 .. size - 1 |-> Uninit]
    IN IF size # 0 THEN none_array_loop(ret_maybe, 0, size) ELSE ret_maybe

\* ------------------------------------------------------------- NtreeNode
new(data) == [data |-> data, children |-> none_array(N)]

take_data(self) == self.data

get_data(self) == Res(self, Val(self.data))

get_data_mut(self) == Res(self, Val(self.data))

\* set_data handing back the new payload instead of the old one.
set_data_returns_new(self, data) == Res([self EXCEPT !.data = data], Val(data))

set_data(self, data) == Res([self EXCEPT !.data = data], Val(self.data))

\* self.children[i] on a [_; N] array panics unless i < N.
InBounds(i) == i < N

peek_mut(self, i) ==
    IF ~InBounds(i) THEN Res(self, Panic)
    ELSE LET node_opt == self.children[i]
         IN CASE node_opt.tag = "Some" -> Res(self, RSome(Ref(i, TRUE)))
              [] node_opt.tag = "None" -> Res(self, RNone)
              [] OTHER -> Res(self, UB)

\* peek answering None for an out-of-range index (slice::get style).
peek_get(self, i) ==
    IF ~InBounds(i) THEN Res(self, RNone)
    ELSE LET node_opt == self.children[i]
         IN CASE node_opt.tag = "Some" -> Res(self, RSome(Ref(i, FALSE)))
              [] node_opt.tag = "None" -> Res(self, RNone)
              [] OTHER -> Res(self, UB)

\* peek handing out the child of the mirrored slot.
peek_mirrored(self, i) ==
    IF ~InBounds(i) THEN Res(self, Panic)
    ELSE LET node_opt == self.children[N - 1 - i]
         IN CASE node_opt.tag = "Some" -> Res(self, RSome(Ref(N - 1 - i, FALSE)))
              [] node_opt.tag = "None" -> Res(self, RNone)
              [] OTHER -> Res(self, UB)

peek(self, i) ==
    IF ~InBounds(i) THEN Res(self, Panic)
    ELSE LET node_opt == self.children[i]
         IN CASE node_opt.tag = "Some" -> Res(self, RSome(Ref(i, FALSE)))
              [] node_opt.tag = "None" -> Res(self, RNone)
              [] OTHER -> Res(self, UB)

\* pop reading the child without taking it out of the slot.
pop_keeps_slot(self, i) ==
    IF ~InBounds(i) THEN Res(self, Panic)
    ELSE LET taken == self.children[i]
         IN CASE taken.tag = "Some" -> Res(self, RSome(Val(take_data(taken.node))))
              [] taken.tag = "None" -> Res(self, RNone)
              [] OTHER -> Res(self, UB)

pop(self, i) ==
    IF ~InBounds(i) THEN Res(self, Panic)
    ELSE LET taken == self.children[i]
             s1 == [self EXCEPT !.children[i] = None]
         IN CASE taken.tag = "Some" -> Res(s1, RSome(Val(take_data(taken.node))))
              [] taken.tag = "None" -> Res(s1, RNone)
              [] OTHER -> Res(self, UB)

\* Option::unwrap of a method result holding an Option<&mut dyn ...>.
unwrap(r) ==
    CASE r.ret.kind = "Some" -> Res(r.self, r.ret.val)
      [] r.ret.kind = "None" -> Res(r.self, Panic)
      [] OTHER -> r

\* push_mut replacing the payload of an existing child but keeping its subtree.
push_mut_merges(self, i, data) ==
    IF ~InBounds(i) THEN Res(self, Panic)
    ELSE LET old == self.children[i]
             s1 == IF old.tag = "Some"
                   THEN [self EXCEPT !.children[i] = Some([old.node EXCEPT !.data = data])]
                   ELSE [self EXCEPT !.children[i] = Some(new(data))]
         IN unwrap(peek_mut(s1, i))

\* push_mut storing the new child in slot 0 whatever i is.
push_mut_slot0(self, i, data) ==
    IF ~InBounds(i) THEN Res(self, Panic)
    ELSE LET s1 == [self EXCEPT !.children[0] = Some(new(data))]
         IN unwrap(peek_mut(s1, i))

push_mut(self, i, data) ==
    IF ~InBounds(i) THEN Res(self, Panic)
    ELSE LET s1 == [self EXCEPT !.children[i] = Some(new(data))]
         IN unwrap(peek_mut(s1, i))

\* ------------------------------------- NtreeNodeInterface default methods
\* A &mut dyn handle returned where the signature says &dyn.
AsShared(r) ==
    IF r.ret.kind = "Ref" THEN Res(r.self, Ref(r.ret.child, FALSE)) ELSE r

\* Some(x) around the result of an unchecked call (a panic unwinds past it).
WrapSome(r) ==
    IF r.ret.kind \in {"Panic", "UB"} THEN r ELSE Res(r.self, RSome(r.ret))

bounded_peek_mut(self, i) ==
    IF i > N THEN Res(self, RNone) ELSE peek_mut(self, i)

bounded_peek(self, i) ==
    IF i > N THEN Res(self, RNone) ELSE peek(self, i)

bounded_push_mut(self, i, data) ==
    IF i > N THEN Res(self, RNone) ELSE WrapSome(push_mut(self, i, data))

push(self, i, data) == AsShared(push_mut(self, i, data))

bounded_push(self, i, data) ==
    IF i > N THEN Res(self, RNone) ELSE WrapSome(push(self, i, data))

\* peek_or_push_mut pushing whether or not the slot is occupied.
peek_or_push_mut_always(self, i, default_data) ==
    LET p == peek(self, i)
    IN IF p.ret.kind \in {"Panic", "UB"} THEN p
       ELSE LET s1 == push_mut(self, i, default_data)
            IN IF s1.ret.kind \in {"Panic", "UB"} THEN s1
               ELSE unwrap(peek_mut(s1.self, i))

peek_or_push_mut(self, i, default_data) ==
    LET p == peek(self, i)
    IN IF p.ret.kind \in {"Panic", "UB"} THEN p
       ELSE LET s1 == IF p.ret.kind = "None"
                      THEN push_mut(self, i, default_data)
                      ELSE Res(self, RNone)
            IN IF s1.ret.kind \in {"Panic", "UB"} THEN s1
               ELSE unwrap(peek_mut(s1.self, i))

peek_or_push(self, i, default_data) ==
    AsShared(peek_or_push_mut(self, i, default_data))

bounded_peek_or_push(self, i, default_data) ==
    IF i > N THEN Res(self, RNone)
    ELSE WrapSome(peek_or_push(self, i, default_data))

bounded_peek_or_push_mut(self, i, default_data) ==
    IF i > N THEN Res(self, RNone)
    ELSE WrapSome(peek_or_push_mut(self, i, default_data))

\* bounded_pop rejecting the last valid slot as well.
bounded_pop_tight(self, i) ==
    IF i + 1 >= N THEN Res(self, RNone) ELSE pop(self, i)

bounded_pop(self, i) ==
    IF i > N THEN Res(self, RNone) ELSE pop(self, i)

\* ------------------------------------------------------------------ Ntree
Ntree_new(default_data) == [root |-> new(default_data)]

\* Ntree::interface / interface_mut: a handle to the root node.
interface(t) == << >>

interface_mut(t) == << >>

\* Node equality that compares the occupancy of the slots but not the boxes.
NodeEq_shallow(a, b) ==
    /\ a.data = b.data
    /\ \A i \in 0 .. N - 1 : a.children[i].tag = b.children[i].tag

\* #[derive(PartialEq, Eq)] on NtreeNode: data, then children slot by slot
\* (Option: both None, or both Some with equal boxes).
RECURSIVE NodeEq(_, _)
NodeEq(a, b) ==
    /\ a.data = b.data
    /\ \A i \in 0 .. N - 1 :
          LET x == a.children[i]
              y == b.children[i]
          IN /\ x.tag = y.tag
             /\ x.tag = "Some" => NodeEq(x.node, y.node)

\* #[derive(PartialEq, Eq)] on Ntree.
NtreeEq(s, t) == NodeEq(s.root, t.root)

\* ----------------------------------------------------- handles and paths
\* The node a handle (a path of child indices from the root) refers to.
RECURSIVE NodeAt(_, _)
NodeAt(node, path) ==
    IF path = << >> THEN node
    ELSE NodeAt(node.children[Head(path)].node, Tail(path))

\* The tree after the node a handle refers to has been modified in place.
RECURSIVE ReplaceAt(_, _, _)
ReplaceAt(node, path, newnode) ==
    IF path = << >> THEN newnode
    ELSE [node EXCEPT !.children[Head(path)] =
              Some(ReplaceAt(node.children[Head(path)].node, Tail(path), newnode))]

\* Number of nodes owned by a node, itself included.
RECURSIVE Size(_)
RECURSIVE SizeFrom(_, _)
SizeFrom(node, i) ==
    IF i >= N THEN 0
    ELSE (IF node.children[i].tag = "Some" THEN Size(node.children[i].node) ELSE 0)
         + SizeFrom(node, i + 1)

Size(node) == 1 + SizeFrom(node, 0)

\* Paths of all the nodes of a tree (the occupied positions).
RECURSIVE Positions(_)
Positions(node) ==
    {<< >>} \cup UNION { { <<i>> \o q : q \in Positions(node.children[i].node) } :
                          i \in { j \in 0 .. N - 1 : node.children[j].tag = "Some" } }

\* The handle reached from a node by the chain peek(path[1]), peek(path[2]), ...
\* each applied to the child the previous peek returned: RSome(handle) or RNone
\* as soon as one peek finds its slot empty (Panic if an index is out of range).
RECURSIVE PeekChain(_, _, _)
PeekChain(root, at, path) ==
    IF path = << >> THEN RSome(at)
    ELSE LET r == peek(NodeAt(root, at), Head(path)).ret
         IN IF r.kind = "Some"
            THEN PeekChain(root, Append(at, r.val.child), Tail(path))
            ELSE r

\* ------------------------------------------------------------ the caller
Idx == 0 .. N + MaxOver

MkCall(op, i, d) == [op |-> op, i |-> i, d |-> d]

NoCall == MkCall("none", -1, 0)

Idle == [kind |-> "Idle"]

\* The node the current handle refers to.
Self == NodeAt(tree.root, cur)

\* A method is called through the current handle and returns (or panics):
\* the node is updated in place, the call, the tree before it and the
\* result are recorded.
InvokeOn(limit, op, r, i, d) ==
    /\ pc = "idle"
    /\ LET t1 == [root |-> ReplaceAt(tree.root, cur, r.self)]
       IN /\ Size(t1.root) <= limit
          /\ tree' = t1
    /\ pre' = tree
    /\ call' = MkCall(op, i, d)
    /\ ret' = r.ret
    /\ pc' = "done"
    /\ UNCHANGED <<N, cur, cur_mut>>

Invoke(op, r, i, d) == InvokeOn(MaxNodes, op, r, i, d) /\ UNCHANGED hist

\* The &dyn handle a result carries, if any.
HasHandle(r) ==
    \/ r.kind = "Ref"
    \/ r.kind = "Some" /\ r.val.kind = "Ref"

HandleOf(r) == IF r.kind = "Ref" THEN r ELSE r.val

\* ---------------------------------------------------------------- actions
\* get_data takes &self: any handle will do.
GetData == pc = "idle" /\ Invoke("get_data", get_data(Self), -1, 0)

GetDataMut == cur_mut /\ Invoke("get_data_mut", get_data_mut(Self), -1, 0)

SetData == cur_mut /\ \E d \in Data : Invoke("set_data", set_data(Self, d), -1, d)

PeekMut == cur_mut /\ \E i \in Idx : Invoke("peek_mut", peek_mut(Self, i), i, 0)

BoundedPeekMut ==
    cur_mut /\ \E i \in Idx : Invoke("bounded_peek_mut", bounded_peek_mut(Self, i), i, 0)

Peek == \E i \in Idx : Invoke("peek", peek(Self, i), i, 0)

BoundedPeek ==
    cur_mut /\ \E i \in Idx : Invoke("bounded_peek", bounded_peek(Self, i), i, 0)

PushMut ==
    cur_mut /\ \E i \in Idx, d \in Data : Invoke("push_mut", push_mut(Self, i, d), i, d)

BoundedPushMut ==
    cur_mut /\ \E i \in Idx, d \in Data :
        Invoke("bounded_push_mut", bounded_push_mut(Self, i, d), i, d)

Push == cur_mut /\ \E i \in Idx, d \in Data : Invoke("push", push(Self, i, d), i, d)

BoundedPush ==
    cur_mut /\ \E i \in Idx, d \in Data :
        Invoke("bounded_push", bounded_push(Self, i, d), i, d)

PeekOrPush ==
    cur_mut /\ \E i \in Idx, d \in Data :
        Invoke("peek_or_push", peek_or_push(Self, i, d), i, d)

BoundedPeekOrPush ==
    cur_mut /\ \E i \in Idx, d \in Data :
        Invoke("bounded_peek_or_push", bounded_peek_or_push(Self, i, d), i, d)

PeekOrPushMut ==
    cur_mut /\ \E i \in Idx, d \in Data :
        Invoke("peek_or_push_mut", peek_or_push_mut(Self, i, d), i, d)

BoundedPeekOrPushMut ==
    cur_mut /\ \E i \in Idx, d \in Data :
        Invoke("bounded_peek_or_push_mut", bounded_peek_or_push_mut(Self, i, d), i, d)

Pop == cur_mut /\ \E i \in Idx : Invoke("pop", pop(Self, i), i, 0)

BoundedPop == cur_mut /\ \E i \in Idx : Invoke("bounded_pop", bounded_pop(Self, i), i, 0)

\* The caller goes on through the handle the call returned.
Follow ==
    /\ pc = "done"
    /\ HasHandle(ret)
    /\ cur' = Append(cur, HandleOf(ret).child)
    /\ cur_mut' = HandleOf(ret).mut
    /\ pc' = "idle"
    /\ call' = NoCall
    /\ ret' = Idle
    /\ pre' = tree
    /\ UNCHANGED <<N, tree, hist>>

\* The caller lets go of the result (or catches the panic) and keeps its handle.
Drop ==
    /\ pc = "done"
    /\ pc' = "idle"
    /\ call' = NoCall
    /\ ret' = Idle
    /\ pre' = tree
    /\ UNCHANGED <<N, tree, cur, cur_mut, hist>>

\* tree.interface(): a shared handle to the root.
Interface ==
    /\ pc = "idle"
    /\ cur' = interface(tree)
    /\ cur_mut' = FALSE
    /\ UNCHANGED <<N, tree, pc, call, pre, ret, hist>>

\* tree.interface_mut(): an exclusive handle to the root.
InterfaceMut ==
    /\ pc = "idle"
    /\ cur' = interface_mut(tree)
    /\ cur_mut' = TRUE
    /\ UNCHANGED <<N, tree, pc, call, pre, ret, hist>>

\* Ntree::<N, _>::new(p) has just returned.
Init ==
    /\ N \in Arities
    /\ \E p \in Data :
          /\ tree = Ntree_new(p)
          /\ call = MkCall("new", -1, p)
    /\ pre = tree
    /\ cur = << >>
    /\ cur_mut = TRUE
    /\ pc = "done"
    /\ ret = [kind |-> "Tree"]
    /\ hist = << >>

\* The payload accessors and the unchecked family, through any handle.
Next ==
    \/ GetData \/ GetDataMut \/ SetData
    \/ PeekMut \/ Peek \/ PushMut \/ Push \/ PeekOrPush \/ PeekOrPushMut \/ Pop
    \/ Follow \/ Drop \/ Interface \/ InterfaceMut

Spec == Init /\ [][Next]_vars

\* The bounds-checked family (every method of it takes &mut self).
NextBounded ==
    \/ BoundedPeekMut \/ BoundedPeek \/ BoundedPushMut \/ BoundedPush
    \/ BoundedPeekOrPush \/ BoundedPeekOrPushMut \/ BoundedPop
    \/ Follow \/ Drop \/ InterfaceMut

SpecBounded == Init /\ [][NextBounded]_vars

TypeOK ==
    /\ N \in Arities
    /\ pc \in {"idle", "done"}
    /\ cur \in Positions(tree.root)
    /\ Size(tree.root) <= MaxNodes

\* ------------------------------------------------- vocabulary of the claims
BoundedOps ==
    {"bounded_peek", "bounded_peek_mut", "bounded_push", "bounded_push_mut",
     "bounded_peek_or_push", "bounded_peek_or_push_mut", "bounded_pop"}

UncheckedOps ==
    {"peek", "peek_mut", "push", "push_mut", "peek_or_push", "peek_or_push_mut", "pop"}

\* A call of one of the named methods has just returned (or panicked).
Done(ops) == pc = "done" /\ call.op \in ops

\* The node the call was made on, before and after the call.
PreSelf == NodeAt(pre.root, cur)
PostSelf == NodeAt(tree.root, cur)

\* The position of slot call.i of the node the call was made on.
Slot == Append(cur, call.i)

IsPrefix(p, q) == Len(p) <= Len(q) /\ SubSeq(q, 1, Len(p)) = p

\* Positions of a tree that lie strictly below a position.
Below(root, p) == { q \in Positions(root) : IsPrefix(p, q) /\ q # p }

\* A position is reachable from the root by a chain of peeks.
Reachable(root, path) == PeekChain(root, << >>, path).kind = "Some"

\* A node holding payload d whose N slots are all empty.
Fresh(d) == [data |-> d, children |-> [k \in 0 .. N - 1 |-> None]]

\* The result is a handle to the child in slot i (bare, or inside Some).
IsHandleTo(r, i) == HasHandle(r) /\ HandleOf(r).child = i

\* ------------------------------------------------------------------ C1
\* C1: for every arity N and every index i >= N (i == N included), each
\* bounds-checked operation returns None without faulting and leaves the
\* tree unchanged.
C1_BoundedOutOfRangeIsNone ==
    Done(BoundedOps) /\ call.i >= N => ret = RNone /\ tree = pre

\* ------------------------------------------------------------------ C2
\* C2: for i in [0, N), whatever slot i held, after push(i, d) / push_mut(i, d)
\* slot i holds a fresh child with payload d and N empty slots, peek(i) yields
\* that child, the returned handle is that child, and every descendant of the
\* subtree previously at slot i is unreachable.
C2_PushOverwrites ==
    Done({"push", "push_mut"}) /\ call.i < N =>
        /\ ret = Ref(call.i, call.op = "push_mut")
        /\ PostSelf.children[call.i] = Some(Fresh(call.d))
        /\ peek(PostSelf, call.i).ret = RSome(Ref(call.i, FALSE))
        /\ get_data(NodeAt(tree.root, Slot)).ret = Val(call.d)
        /\ \A k \in 0 .. N - 1 : peek(NodeAt(tree.root, Slot), k).ret = RNone
        /\ \A q \in Below(pre.root, Slot) : ~Reachable(tree.root, q)

\* A push onto a slot that held a child with a different payload and a
\* grandchild below it.
C2_Witness ==
    /\ Done({"push", "push_mut"}) /\ call.i < N
    /\ Below(pre.root, Slot) # {}
    /\ NodeAt(pre.root, Slot).data # call.d

\* ------------------------------------------------------------------ C3
\* C3: for i in [0, N), pop(i) on an occupied slot returns Some(p), p the
\* payload of the direct child only, empties the slot (the next peek(i) is
\* empty) and leaves nothing of the detached subtree reachable; on an empty
\* slot it returns None and leaves the tree unchanged.
C3_PopPeelsOneLayer ==
    Done({"pop"}) /\ call.i < N =>
        IF PreSelf.children[call.i].tag = "Some"
        THEN /\ ret = RSome(Val(NodeAt(pre.root, Slot).data))
             /\ peek(PostSelf, call.i).ret = RNone
             /\ \A q \in Below(pre.root, Slot) \cup {Slot} : ~Reachable(tree.root, q)
        ELSE ret = RNone /\ tree = pre

\* A pop of a child that has a grandchild with another payload below it.
C3_Witness ==
    /\ Done({"pop"}) /\ call.i < N
    /\ \E q \in Below(pre.root, Slot) :
          NodeAt(pre.root, q).data # NodeAt(pre.root, Slot).data

\* ------------------------------------------------------------------ C4
\* C4: for i in [0, N), peek_or_push(i, d) / peek_or_push_mut(i, d) on an
\* occupied slot returns the existing child and leaves the whole tree as it
\* was (d is not stored); on an empty slot it has the effect of push(i, d).
C4_PeekOrPushKeeps ==
    Done({"peek_or_push", "peek_or_push_mut"}) /\ call.i < N =>
        /\ ret = Ref(call.i, call.op = "peek_or_push_mut")
        /\ IF PreSelf.children[call.i].tag = "Some"
           THEN tree = pre
           ELSE /\ tree.root = ReplaceAt(pre.root, cur, push_mut(PreSelf, call.i, call.d).self)
                /\ NodeAt(tree.root, Slot) = Fresh(call.d)

\* peek_or_push on a slot whose child has another payload and a subtree.
C4_Witness ==
    /\ Done({"peek_or_push", "peek_or_push_mut"}) /\ call.i < N
    /\ PreSelf.children[call.i].tag = "Some"
    /\ NodeAt(pre.root, Slot).data # call.d
    /\ Below(pre.root, Slot) # {}

\* ------------------------------------------------------------------ C5
\* C5: for every index i >= N each unchecked operation panics instead of
\* returning a result, and the tree is exactly as it was before the call.
C5_UncheckedOutOfRangePanics ==
    Done(UncheckedOps) /\ call.i >= N => ret = Panic /\ tree = pre

\* An unchecked call with an out-of-range index on a node of a tree that
\* has children.
C5_Witness ==
    /\ Done(UncheckedOps) /\ call.i >= N
    /\ N > 0 /\ Size(pre.root) > 1

\* ------------------------------------------------------------------ C6
\* C6: set_data(v) always succeeds, returns the payload the node held just
\* before, makes a following get_data return v, and leaves every child slot
\* of the node (and the rest of the tree) unchanged.
C6_SetDataReplacesPayload ==
    Done({"set_data"}) =>
        /\ ret = Val(PreSelf.data)
        /\ get_data(PostSelf).ret = Val(call.d)
        /\ PostSelf.children = PreSelf.children
        /\ tree.root = ReplaceAt(pre.root, cur, [PreSelf EXCEPT !.data = call.d])

\* set_data with a new payload on a node that has a child.
C6_Witness ==
    /\ Done({"set_data"})
    /\ PreSelf.data # call.d
    /\ \E i \in 0 .. N - 1 : PreSelf.children[i].tag = "Some"

\* ------------------------------------------------------------------ C8
\* The unchecked method a bounds-checked method delegates to, applied to
\* the node the call was made on.
Unchecked(op, self, i, d) ==
    CASE op = "bounded_peek" -> peek(self, i)
      [] op = "bounded_peek_mut" -> peek_mut(self, i)
      [] op = "bounded_push" -> push(self, i, d)
      [] op = "bounded_push_mut" -> push_mut(self, i, d)
      [] op = "bounded_peek_or_push" -> peek_or_push(self, i, d)
      [] op = "bounded_peek_or_push_mut" -> peek_or_push_mut(self, i, d)
      [] op = "bounded_pop" -> pop(self, i)

\* The value inside the Option a bounds-checked push / peek_or_push returns.
Payload(op, r) ==
    IF op \in {"bounded_peek", "bounded_peek_mut", "bounded_pop"} THEN r
    ELSE IF r.kind = "Some" THEN r.val ELSE [kind |-> "NotSome"]

\* C8: for i in [0, N) and every tree, each bounds-checked operation yields
\* the same result and the same resulting tree as the unchecked operation.
C8_BoundedAgreesInRange ==
    Done(BoundedOps) /\ call.i < N =>
        LET u == Unchecked(call.op, PreSelf, call.i, call.d)
        IN /\ Payload(call.op, ret) = u.ret
           /\ tree.root = ReplaceAt(pre.root, cur, u.self)

\* A bounds-checked call on the last valid slot that changed the tree.
C8_Witness ==
    /\ Done(BoundedOps) /\ call.i = N - 1
    /\ tree # pre

\* ------------------------------------------------------------------ C10
\* Every node of a tree has exactly N slots, each None or Some.
RECURSIVE WellFormed(_)
WellFormed(node) ==
    /\ DOMAIN node.children = 0 .. N - 1
    /\ \A i \in 0 .. N - 1 :
          /\ node.children[i].tag \in {"None", "Some"}
          /\ node.children[i].tag = "Some" => WellFormed(node.children[i].node)

\* C10: construction never fails: for every arity N (0 included) new(p)
\* gives a node with payload p and exactly N slots, all empty, so peek(i) is
\* empty for every i in [0, N); no uninitialised slot is ever observable.
C10_NewIsAllEmpty ==
    /\ WellFormed(tree.root)
    /\ Done({"new"}) =>
          /\ get_data(tree.root).ret = Val(call.d)
          /\ tree.root = Fresh(call.d)
          /\ \A i \in 0 .. N - 1 : peek(tree.root, i).ret = RNone

\* A tree of the largest arity has just been constructed.
C10_Witness == Done({"new"}) /\ N = MaxArity

\* ------------------------------------------------------------------ C7
\* Same occupied positions, and the same payload at each of them.
SamePattern(a, b) ==
    /\ Positions(a) = Positions(b)
    /\ \A p \in Positions(a) : NodeAt(a, p).data = NodeAt(b, p).data

\* b has every occupied position of a and exactly one more.
OneMoreSlot(a, b) ==
    /\ Positions(a) \subseteq Positions(b)
    /\ Cardinality(Positions(b)) = Cardinality(Positions(a)) + 1

\* C7: two trees of the same arity compare equal exactly when they have
\* equal payloads at every corresponding position and the same
\* occupied/empty pattern throughout (in particular when the one is the
\* other after a push / peek_or_push that a shorter sequence is equivalent
\* to); a tree with one more occupied slot than another is not equal to it.
\* The two trees are the tree before a call and the tree after it.
C7_EqualityIsStructural ==
    pc = "done" =>
        /\ NtreeEq(pre, tree) <=> SamePattern(pre.root, tree.root)
        /\ NtreeEq(tree, pre) <=> NtreeEq(pre, tree)
        /\ OneMoreSlot(pre.root, tree.root) => ~NtreeEq(pre, tree)
        /\ OneMoreSlot(tree.root, pre.root) => ~NtreeEq(pre, tree)

\* A push below the root onto an empty slot: the tree after the call has
\* one more occupied slot, a grandchild of the root, and is otherwise the same.
C7_Witness ==
    /\ Done({"push", "push_mut", "peek_or_push", "peek_or_push_mut"})
    /\ OneMoreSlot(pre.root, tree.root)
    /\ Len(cur) >= 1

\* --------------------------------------------- depth-chain scenario, C9
\* push_mut / bounded_push_mut on the handle the previous push returned,
\* ChainLen times starting at the root; then peeks from interface().
ChainPushMut ==
    /\ Len(hist) < ChainLen
    /\ Len(cur) = Len(hist)
    /\ cur_mut
    /\ \E i \in 0 .. N - 1, d \in Data :
          /\ InvokeOn(ChainLen + 1, "push_mut", push_mut(Self, i, d), i, d)
          /\ hist' = Append(hist, [i |-> i, d |-> d])

ChainBoundedPushMut ==
    /\ Len(hist) < ChainLen
    /\ Len(cur) = Len(hist)
    /\ cur_mut
    /\ \E i \in 0 .. N - 1, d \in Data :
          /\ InvokeOn(ChainLen + 1, "bounded_push_mut", bounded_push_mut(Self, i, d), i, d)
          /\ hist' = Append(hist, [i |-> i, d |-> d])

ChainInterface == Len(hist) = ChainLen /\ Interface

ChainPeek ==
    /\ Len(hist) = ChainLen
    /\ ~cur_mut
    /\ \E i \in 0 .. N - 1 : InvokeOn(ChainLen + 1, "peek", peek(Self, i), i, 0)
    /\ UNCHANGED hist

ChainGetData ==
    /\ Len(hist) = ChainLen
    /\ ~cur_mut
    /\ InvokeOn(ChainLen + 1, "get_data", get_data(Self), -1, 0)
    /\ UNCHANGED hist

ChainDrop == ~cur_mut /\ Drop

InitChain ==
    /\ N \in Arities \ {0}
    /\ \E p \in Data : tree = Ntree_new(p)
    /\ pre = tree
    /\ cur = << >>
    /\ cur_mut = TRUE
    /\ pc = "idle"
    /\ call = NoCall
    /\ ret = Idle
    /\ hist = << >>

NextChain ==
    \/ ChainPushMut \/ ChainBoundedPushMut \/ Follow
    \/ ChainInterface \/ ChainPeek \/ ChainGetData \/ ChainDrop

SpecChain == InitChain /\ [][NextChain]_vars

\* The slots pushed so far, from the root downwards.
ChainPath == [k \in 1 .. Len(hist) |-> hist[k].i]

\* C9: the handle returned by push / peek for slot i denotes the child stored
\* at slot i, so a push made through it lands in that child: after the chain
\* of pushes, the chain of peeks along the pushed slots reaches the node
\* holding the last payload, and a peek of any slot that was never pushed on
\* a node along the path is empty.
C9_HandleChain ==
    /\ Done({"push_mut", "bounded_push_mut"}) =>
          /\ IsHandleTo(ret, call.i)
          /\ Slot = ChainPath
          /\ NodeAt(tree.root, Slot) = Fresh(call.d)
    /\ \A k \in 1 .. Len(hist) :
          LET r == PeekChain(tree.root, << >>, SubSeq(ChainPath, 1, k))
          IN /\ r.kind = "Some"
             /\ get_data(NodeAt(tree.root, r.val)).ret = Val(hist[k].d)
    /\ Len(hist) = ChainLen /\ ~cur_mut =>
          /\ IsPrefix(cur, ChainPath)
          /\ Done({"peek"}) =>
                IF Len(cur) < ChainLen /\ call.i = ChainPath[Len(cur) + 1]
                THEN ret = RSome(Ref(call.i, FALSE))
                ELSE ret = RNone
          /\ Done({"get_data"}) /\ cur = ChainPath => ret = Val(hist[ChainLen].d)

\* The peeks have followed the whole chain from the root and read the last
\* payload; the pushes used different slots and different payloads.
C9_Witness ==
    /\ Len(hist) = ChainLen /\ ~cur_mut
    /\ Done({"get_data"}) /\ cur = ChainPath
    /\ hist[1].i # hist[2].i
    /\ hist[ChainLen].d # hist[ChainLen - 1].d

\* ------------------------------------------------------------------ C11
\* The methods that may change slot i of the node they are called on.
ChildOps == {"push", "push_mut", "peek_or_push", "peek_or_push_mut", "pop"}

\* The methods that only read.
ReadOps == {"peek", "peek_mut", "get_data", "get_data_mut"}

\* Positions of a tree outside the subtree at the slot the call addressed.
Outside(root) == { q \in Positions(root) : ~IsPrefix(Slot, q) }

\* C11: a child operation addressed to slot i of a node touches only that
\* slot: push, peek_or_push and pop leave the node's payload, every other
\* slot j # i of the node (with its whole subtree) and every node outside the
\* subtree at slot i unchanged; peek, get_data and the interface accessors
\* change nothing; a slot of a surviving node becomes occupied only by push /
\* peek_or_push on that slot and becomes empty only by pop on that slot.
C11_OnlySlotTouched ==
    /\ pc = "idle" => tree = pre
    /\ Done(ReadOps) => tree = pre
    /\ Done(ChildOps) /\ call.i < N =>
          /\ PostSelf.data = PreSelf.data
          /\ \A j \in (0 .. N - 1) \ {call.i} : PostSelf.children[j] = PreSelf.children[j]
          /\ Outside(tree.root) = Outside(pre.root)
          /\ \A q \in Outside(pre.root) : NodeAt(tree.root, q).data = NodeAt(pre.root, q).data
          /\ Slot \in Positions(pre.root) /\ Slot \notin Positions(tree.root) => call.op = "pop"
    /\ pc = "done" =>
          \A q \in Positions(tree.root) \ Positions(pre.root) :
              call.op \in ChildOps \ {"pop"} /\ q = Slot

\* A push, peek_or_push or pop that changed slot i of a node of which
\* another slot is occupied.
C11_Witness ==
    /\ Done(ChildOps) /\ call.i < N
    /\ tree # pre
    /\ \E j \in (0 .. N - 1) \ {call.i} : PreSelf.children[j].tag = "Some"

====
